---- MODULE Spec2Model ----
(***************************************************************************)
(* node-smtp-sink: the bounded mail store and the handlers around it.      *)
(*                                                                         *)
(* Two implementations live in the repository and are modelled side by    *)
(* side; `impl` says which one the process runs:                           *)
(*   "ts"  src/src/index.ts  createRingBuffer + startSink (SMTP onData,    *)
(*         HTTP /emails, WebSocket fan-out)                                *)
(*   "js"  src/index.js      global `mails` array + emailIdCounter         *)
(* Node runs every callback to completion, so one action is one callback   *)
(* (or the part of an async function between two awaits).                  *)
(***************************************************************************)
EXTENDS Integers, Sequences, FiniteSets, TLC

\* capacity of the store (opts.max / config.max), as configured for this run
max == 2

\* ---------------------------------------------------------------- bounds
\* messages delivered over SMTP during one run
MaxMsgs == 3

Sessions == {"s1", "s2"}
Clients  == {"w1", "w2"}
Subjects == {"a", "b"}
\* the payload of the messages sent while requests are being made
LivePayloads == {"a"}
\* values Date.now() may return, and tokens Math.random().toString(36).slice(2)
\* may produce
Times  == {1000, 1001}
Tokens == {"k1", "k2"}

VARIABLES
    impl,            \* which implementation runs: "ts" or "js"
    up,              \* the process is running
    optsWhitelist,   \* the whitelist option: opts.whitelist / config.whitelist
    arr,             \* ts: createRingBuffer's `arr`
    wsClients,       \* ts: Set<WebSocket>
    readyState,      \* ts: readyState of each WebSocket object
    wsView,          \* ts: the latest 'emails' event each connected client holds
    tsPc,            \* ts: where each session's onData is
    mails,           \* js: the global `mails`
    emailIdCounter,  \* js: the global id counter
    jsPc,            \* js: where each session's message handler is
    message,         \* js: the `message` accumulator of each session's handler
                     \*     (a local: "" once the handler has returned)
    created,         \* number of records created so far (object identity)
    issued,          \* ids given to records so far
    pure,            \* no remove and no clear has changed the store yet
    held,            \* the array a caller got from toArray() and kept
    acks,            \* transactions acknowledged as accepted so far
    txn,             \* js: per session, acks when its transaction began (seen)
                     \*     and its own place among the acknowledged (ack)
    last             \* what the last handler did and answered

vars == <<impl, up, optsWhitelist, arr, wsClients, readyState, wsView, tsPc, mails, emailIdCounter,
          jsPc, message, created, issued, pure, held, acks, txn, last>>

tsVars == <<arr, wsClients, readyState, wsView, tsPc>>
jsVars == <<mails, emailIdCounter, jsPc, message>>

\* ------------------------------------------------------- array primitives
Min(a, b) == IF a < b THEN a ELSE b

\* Array.prototype.splice(i, 1) with a 0-based index i: drops one element
Splice1(a, i) ==
    IF i < 0 \/ i >= Len(a) THEN a
    ELSE SubSeq(a, 1, i) \o SubSeq(a, i + 2, Len(a))

\* Array.prototype.findIndex(item => item.id === id): first match or -1
RECURSIVE FindFrom(_, _, _)
FindFrom(a, id, i) ==
    IF i >= Len(a) THEN -1
    ELSE IF a[i + 1].id = id THEN i
    ELSE FindFrom(a, id, i + 1)

FindIndexById(a, id) == FindFrom(a, id, 0)

\* variant: the copy is made back to front
ToArrayReversed(a) == [i \in 1..Len(a) |-> a[Len(a) + 1 - i]]

\* [...arr]
ToArray(a) == [i \in 1..Len(a) |-> a[i]]

\* ----------------------------------------------------------------- strings
\* strings are sequences of characters
\* String.prototype.toLowerCase, on the letters used here
LowerChar(ch) ==
    CASE ch = "A" -> "a"
      [] ch = "B" -> "b"
      [] ch = "H" -> "h"
      [] ch = "I" -> "i"
      [] ch = "L" -> "l"
      [] ch = "N" -> "n"
      [] ch = "O" -> "o"
      [] OTHER -> ch

\* variant: the case is not folded
ToLowerCaseNoop(str) == str

ToLowerCase(str) == [i \in 1..Len(str) |-> LowerChar(str[i])]

\* String.prototype.trim, for the blank used here
RECURSIVE TrimStart(_)
TrimStart(str) ==
    IF str # <<>> /\ Head(str) = " " THEN TrimStart(Tail(str)) ELSE str

RECURSIVE TrimEnd(_)
TrimEnd(str) ==
    IF str # <<>> /\ str[Len(str)] = " "
    THEN TrimEnd(SubSeq(str, 1, Len(str) - 1)) ELSE str

Trim(str) == TrimEnd(TrimStart(str))

\* Array.prototype.includes / indexOf(x) !== -1
InArray(a, x) == \E i \in 1..Len(a) : a[i] = x

\* ------------------------------------------------------------- whitelist
\* MAIL FROM addresses, <<>> being the null sender
Senders == {<<"a">>, <<"A">>, <<"b">>, <<>>}

\* whitelist options: none; a blank entry only; an entry in capitals with a
\* leading blank next to an empty entry; a plain entry
WhitelistOptions ==
    {<<>>,
     << <<" ">> >>,
     << <<" ", "A">>, <<>> >>,
     << <<"b">> >>}

\* variant: entries lower-cased but not trimmed
WhitelistNoTrim(opts) ==
    LET NonEmpty(e) == e # <<>>
    IN  SelectSeq([i \in 1..Len(opts) |-> ToLowerCase(opts[i])], NonEmpty)

\* ts: (opts.whitelist ?? []).map((s) => s.toLowerCase().trim()).filter(Boolean)
Whitelist(opts) ==
    LET NonEmpty(e) == e # <<>>
    IN  SelectSeq([i \in 1..Len(opts) |-> Trim(ToLowerCase(opts[i]))], NonEmpty)

\* variant: the whitelist is not consulted
OnMailFromAcceptAll(wl, address) == TRUE

\* ts: onMailFrom accepts (callback()) or rejects (callback(err), 550)
OnMailFrom(wl, address) ==
    IF Len(wl) = 0 THEN TRUE
    ELSE LET from == ToLowerCase(address)
         IN  from # <<>> /\ InArray(wl, from)

\* js: config.whitelist != null ? config.whitelist.split(',') : []
JsWhitelist(opts) == opts

\* js: req.on('from') accepts (ack.accept()) or rejects (ack.reject())
JsOnFromAccepts(wl, from) == Len(wl) = 0 \/ InArray(wl, from)

\* ------------------------------------------------ ts: createRingBuffer
\* variants of the trim loop: a bound that is off by one, and splice(1, 1)
RECURSIVE TrimLoopOffByOne(_)
TrimLoopOffByOne(a) ==
    IF Len(a) > max + 1 THEN TrimLoopOffByOne(Splice1(a, 0)) ELSE a

RECURSIVE TrimLoopSecond(_)
TrimLoopSecond(a) == IF Len(a) > max THEN TrimLoopSecond(Splice1(a, 1)) ELSE a

\* while (arr.length > max) arr.splice(0, 1)
RECURSIVE TrimLoop(_)
TrimLoop(a) == IF Len(a) > max THEN TrimLoop(Splice1(a, 0)) ELSE a

\* variant of push: onChange called before the trim loop
RingPushNotifyFirst(a, item) ==
    [arr |-> TrimLoop(Append(a, item)), notes |-> <<ToArray(Append(a, item))>>]

\* variant of push: onChange called inside the trim loop, once per eviction
RingPushNotifyOnEvict(a, item) ==
    LET b == TrimLoop(Append(a, item))
    IN  [arr |-> b, notes |-> [i \in 1..(Len(a) + 1 - Len(b)) |-> ToArray(b)]]

\* variant of push: onChange is called, the item is not kept
RingPushNotStored(a, item) == [arr |-> a, notes |-> <<ToArray(a)>>]

\* variant of push: the item is appended twice
RingPushTwice(a, item) ==
    LET b == TrimLoop(Append(Append(a, item), item))
    IN  [arr |-> b, notes |-> <<ToArray(b)>>]

\* push(item): returns the new array and the snapshots handed to onChange
RingPush(a, item) ==
    LET b == TrimLoop(Append(a, item))
    IN  [arr |-> b, notes |-> <<ToArray(b)>>]

\* variant of clear: onChange only when something was removed
RingClearQuiet(a) ==
    [arr |-> <<>>, notes |-> IF Len(a) > 0 THEN <<ToArray(<<>>)>> ELSE <<>>]

\* clear()
RingClear(a) == [arr |-> <<>>, notes |-> <<ToArray(<<>>)>>]

\* variant of remove: the list for onChange taken before the splice
RingRemoveStaleNote(a, id) ==
    LET idx == FindIndexById(a, id)
    IN  IF idx # -1
        THEN [arr |-> Splice1(a, idx), notes |-> <<ToArray(a)>>, ret |-> TRUE]
        ELSE [arr |-> a, notes |-> <<>>, ret |-> FALSE]

\* variants of remove: splice(idx) without a count, and onChange outside the if
RingRemoveRest(a, id) ==
    LET idx == FindIndexById(a, id)
    IN  IF idx # -1
        THEN [arr |-> SubSeq(a, 1, idx), notes |-> <<ToArray(SubSeq(a, 1, idx))>>,
              ret |-> TRUE]
        ELSE [arr |-> a, notes |-> <<>>, ret |-> FALSE]

RingRemoveAlwaysNotify(a, id) ==
    LET idx == FindIndexById(a, id)
        b   == IF idx # -1 THEN Splice1(a, idx) ELSE a
    IN  [arr |-> b, notes |-> <<ToArray(b)>>, ret |-> idx # -1]

\* remove(id)
RingRemove(a, id) ==
    LET idx == FindIndexById(a, id)
    IN  IF idx # -1
        THEN [arr |-> Splice1(a, idx), notes |-> <<ToArray(Splice1(a, idx))>>,
              ret |-> TRUE]
        ELSE [arr |-> a, notes |-> <<>>, ret |-> FALSE]

\* variants of broadcast: the loop returns at the first socket that is not
\* open, and the loop without the readyState test
BroadcastTargetsUntilClosed ==
    IF \E c \in wsClients : readyState[c] # "OPEN" THEN {} ELSE wsClients

BroadcastTargetsNoCheck == wsClients

\* broadcast(): the clients that get client.send(msg)
BroadcastTargets == {c \in wsClients : readyState[c] = "OPEN"}

\* what a client holds before any event, and after its transport went down
NoView == [got |-> FALSE, data |-> <<>>]

\* client.send(msg) for each note, in order: the targets end up holding the
\* last one
Deliver(view, targets, notes) ==
    [c \in Clients |->
        IF c \in targets /\ notes # <<>>
        THEN [got |-> TRUE, data |-> notes[Len(notes)]]
        ELSE view[c]]

\* variant of the connection handler: nothing sent on connect
WsHelloNone(a) == <<>>

\* ws.send(JSON.stringify({ event: 'emails', data: store.toArray() }))
WsHello(a) == <<ToArray(a)>>

\* `${Date.now()}-${Math.random().toString(36).slice(2)}`
MakeId(t, k) == <<t, k>>

TsIds == {MakeId(t, k) : t \in Times, k \in Tokens}

\* the last path segment of a request to /emails/<segment>: an id as issued,
\* an id with its 1 written as the escape %31, and one with a '%' that
\* starts no escape
TsSegments == TsIds \cup {<<1000, "k%31">>, <<1000, "%">>}

\* decodeURIComponent: escapes are replaced by their character; a '%' that
\* is not followed by two hex digits makes it throw URIError
DecodeURIComponent(seg) ==
    CASE seg[2] = "%"    -> [threw |-> TRUE, value |-> <<0, "">>]
      [] seg[2] = "k%31" -> [threw |-> FALSE, value |-> MakeId(seg[1], "k1")]
      [] OTHER           -> [threw |-> FALSE, value |-> seg]

\* ------------------------------------------------------------ SMTP replies
\* a session outside a transaction
NoTxn == [seen |-> 0, ack |-> 0]

\* ------------------------------------------------------- returned arrays
\* nothing kept yet
NoHeld == [taken |-> FALSE, shared |-> FALSE, data |-> <<>>]

\* variant of toArray: return arr, the store's own array
ReturnedLive(a) == [taken |-> TRUE, shared |-> TRUE, data |-> a]

\* what toArray() / [...mails] returns: a new array object with the elements
\* of the store's array
Returned(a) == [taken |-> TRUE, shared |-> FALSE, data |-> ToArray(a)]

\* a write into the store's array object (push, splice, shift, length = 0)
\* is seen through every reference to that object
Follow(h, a) == IF h.shared THEN [h EXCEPT !.data = a] ELSE h

\* ---------------------------------------------------------- observation
\* a request without query parameters (a missing parameter and an empty one
\* are both the empty string of characters)
NoQuery == [from |-> <<>>, to |-> <<>>, subject |-> <<>>, limit |-> <<>>,
            offset |-> <<>>]

NoHttp == [query |-> NoQuery, total |-> 0, limit |-> 0, offset |-> 0]

NoRec == [ord |-> 0]

\* the id slot of a handler that names no id
NoId == IF impl = "ts" THEN <<0, "">> ELSE -1

\* op: the handler; id, rec: the id and record it was about; ret / status: its
\* outcome; count: records evicted by a push, or resident before a clear;
\* notes: the snapshots handed to onChange / sent on connect, in order;
\* to: the sockets they were sent to; snap: the list an HTTP reader got
\* http: for GET /emails of index.js, the query and the total, limit and
\* offset of the answer
Obs(op, id, rec, ret, status, count, notes, to, snap) ==
    [op |-> op, id |-> id, rec |-> rec, ret |-> ret, status |-> status,
     count |-> count, notes |-> notes, to |-> to, snap |-> snap,
     http |-> NoHttp]

InFlight == Cardinality({s \in Sessions : tsPc[s] # "idle"})
            + Cardinality({s \in Sessions : jsPc[s] # "idle"})

\* js: transactions under way whose DATA command has not been answered yet
Unanswered == Cardinality({s \in Sessions : jsPc[s] \in {"mail", "receiving"}})

\* the ways an invocation of onData can end after `await simpleParser`:
\* through callback() ("parsed"), with the await rejected ("parse"), with an
\* exception while rec is built ("build"), with an exception inside
\* store.push, thrown by onChange ("notify")
OnDataOutcomes == {"parsed", "parse", "build", "notify"}

\* variant: callback() placed before store.push(rec)
OnDataCallsReplyFirst(outcome) ==
    CASE outcome = "parsed" -> <<"ok">>
      [] outcome = "notify" -> <<"ok", "err">>
      [] OTHER              -> <<"err">>

\* the completion callbacks an invocation of onData makes, in order: the try
\* block ends in callback(), the catch block is callback(err)
OnDataCalls(outcome) ==
    CASE outcome = "parsed" -> <<"ok">>
      [] OTHER              -> <<"err">>

\* the completion callbacks an invocation of onMailFrom makes: every branch
\* is `return callback(..)`
OnMailFromCalls(wl, address) ==
    IF OnMailFrom(wl, address) THEN <<"ok">> ELSE <<"err">>

\* ------------------------------------------------------------------ Init
Init ==
    /\ impl \in {"ts", "js"}
    /\ up = TRUE
    /\ optsWhitelist = <<>>
    /\ arr = <<>>
    /\ wsClients = {}
    /\ readyState = [c \in Clients |-> "NONE"]
    /\ wsView = [c \in Clients |-> NoView]
    /\ tsPc = [s \in Sessions |-> "idle"]
    /\ mails = <<>>
    /\ emailIdCounter = 0
    /\ jsPc = [s \in Sessions |-> "idle"]
    /\ message = [s \in Sessions |-> ""]
    /\ created = 0
    /\ issued = {}
    /\ pure = TRUE
    /\ held = NoHeld
    /\ acks = 0
    /\ txn = [s \in Sessions |-> NoTxn]
    /\ last = Obs("init", NoId, NoRec, FALSE, 0, 0, <<>>, {}, <<>>)

\* ------------------------------------------------------------ ts actions
\* onMailFrom: the transaction goes on only after callback() without error
TsOnMailFrom(s, address) ==
    /\ impl = "ts"
    /\ up
    /\ tsPc[s] = "idle"
    /\ created + InFlight < MaxMsgs
    /\ LET ok == OnMailFrom(Whitelist(optsWhitelist), address)
       IN  /\ tsPc' = [tsPc EXCEPT ![s] = IF ok THEN "mail" ELSE "idle"]
           /\ last' = Obs("mailfrom", NoId, NoRec, ok, IF ok THEN 250 ELSE 550,
                          0, <<>>, {}, <<>>)
                      @@ [calls |-> OnMailFromCalls(Whitelist(optsWhitelist),
                                                    address)]
    /\ UNCHANGED <<impl, up, optsWhitelist, held, acks, txn, arr, wsClients, readyState, wsView,
                   jsVars, created, issued, pure>>

\* onData up to `await simpleParser(stream)`; smtp-server calls it only in a
\* transaction whose MAIL FROM was accepted
TsOnData(s) ==
    /\ impl = "ts"
    /\ up
    /\ tsPc[s] = "mail"
    /\ tsPc' = [tsPc EXCEPT ![s] = "parsing"]
    /\ UNCHANGED <<impl, up, optsWhitelist, held, acks, txn, arr, wsClients, readyState, wsView, jsVars, created,
                   issued, pure, last>>

\* onData after the await, parse succeeded: build rec, store.push, callback()
TsParsed(s, t, k) ==
    /\ impl = "ts"
    /\ up
    /\ tsPc[s] = "parsing"
    /\ LET rec == [id |-> MakeId(t, k), ord |-> created + 1]
           r   == RingPush(arr, rec)
       IN  /\ arr' = r.arr
           /\ held' = Follow(held, r.arr)
           /\ wsView' = Deliver(wsView, BroadcastTargets, r.notes)
           /\ last' = Obs("push", rec.id, rec, TRUE, 250,
                          Len(arr) + 1 - Len(r.arr), r.notes,
                          BroadcastTargets, <<>>)
                      @@ [calls |-> OnDataCalls("parsed")]
    /\ created' = created + 1
    /\ acks' = acks + 1
    /\ tsPc' = [tsPc EXCEPT ![s] = "idle"]
    /\ UNCHANGED <<impl, up, optsWhitelist, txn, wsClients, readyState, jsVars,
                   issued, pure>>

\* onData after the await, simpleParser rejected: callback(err)
TsParseFailed(s) ==
    /\ impl = "ts"
    /\ up
    /\ tsPc[s] = "parsing"
    /\ tsPc' = [tsPc EXCEPT ![s] = "idle"]
    /\ last' = Obs("parse_error", NoId, NoRec, FALSE, 451, 0, <<>>, {}, <<>>)
                @@ [calls |-> OnDataCalls("parse")]
    /\ UNCHANGED <<impl, up, optsWhitelist, held, acks, txn, arr, wsClients, readyState, wsView, jsVars, created,
                   issued, pure>>

\* onData after the await, parse succeeded, an exception while rec is built
\* (before store.push): callback(err)
TsBuildFailed(s) ==
    /\ impl = "ts"
    /\ up
    /\ tsPc[s] = "parsing"
    /\ tsPc' = [tsPc EXCEPT ![s] = "idle"]
    /\ last' = Obs("build_error", NoId, NoRec, FALSE, 451, 0, <<>>, {}, <<>>)
                @@ [calls |-> OnDataCalls("build")]
    /\ UNCHANGED <<impl, up, optsWhitelist, held, acks, txn, arr, wsClients, readyState, wsView, jsVars, created,
                   issued, pure>>

\* onData after the await, parse succeeded, store.push(rec) throws: arr.push
\* and the trim loop have run, onChange threw while building the message
\* (nothing was sent), the catch block calls callback(err)
TsNotifyFailed(s, t, k) ==
    /\ impl = "ts"
    /\ up
    /\ tsPc[s] = "parsing"
    /\ LET rec == [id |-> MakeId(t, k), ord |-> created + 1]
           r   == RingPush(arr, rec)
       IN  /\ arr' = r.arr
           /\ held' = Follow(held, r.arr)
           /\ last' = Obs("notify_error", rec.id, rec, FALSE, 451,
                          Len(arr) + 1 - Len(r.arr), <<>>, {}, <<>>)
                      @@ [calls |-> OnDataCalls("notify")]
    /\ created' = created + 1
    /\ tsPc' = [tsPc EXCEPT ![s] = "idle"]
    /\ UNCHANGED <<impl, up, optsWhitelist, acks, txn, wsClients, readyState,
                   wsView, jsVars, issued, pure>>

\* GET /emails
TsGetEmails ==
    /\ impl = "ts"
    /\ up
    /\ last' = Obs("list", NoId, NoRec, TRUE, 200, 0, <<>>, {}, ToArray(arr))
    /\ UNCHANGED <<impl, up, optsWhitelist, held, acks, txn, tsVars, jsVars, created, issued, pure>>

\* DELETE /emails (clear() binds arr to a new empty array: an array handed
\* out earlier is not written to)
TsDeleteAll ==
    /\ impl = "ts"
    /\ up
    /\ LET r == RingClear(arr)
       IN  /\ arr' = r.arr
           /\ wsView' = Deliver(wsView, BroadcastTargets, r.notes)
           /\ last' = Obs("clear", NoId, NoRec, TRUE, 204, Len(arr), r.notes,
                          BroadcastTargets, <<>>)
    /\ pure' = FALSE
    /\ UNCHANGED <<impl, up, optsWhitelist, held, acks, txn, wsClients, readyState, tsPc, jsVars, created, issued>>

\* DELETE /emails/:id. An exception thrown in the request listener is caught
\* by nobody: no response is written and the process exits.
TsDeleteById(seg) ==
    /\ impl = "ts"
    /\ up
    /\ LET d == DecodeURIComponent(seg)
           r == RingRemove(arr, d.value)
       IN  IF d.threw
           THEN /\ up' = FALSE
                /\ last' = Obs("remove", NoId, NoRec, FALSE, 0, 0, <<>>, {}, <<>>)
                /\ UNCHANGED <<arr, wsView, pure, held>>
           ELSE /\ up' = up
                /\ arr' = r.arr
                /\ held' = Follow(held, r.arr)
                /\ wsView' = Deliver(wsView, BroadcastTargets, r.notes)
                /\ last' = Obs("remove", d.value, NoRec, r.ret,
                               IF r.ret THEN 204 ELSE 404, 0, r.notes,
                               IF r.notes = <<>> THEN {} ELSE BroadcastTargets,
                               <<>>)
                /\ pure' = (pure /\ ~r.ret)
    /\ UNCHANGED <<impl, optsWhitelist, acks, txn, wsClients, readyState, tsPc, jsVars,
                   created,
                   issued>>

\* any other request to /emails/<segment> (GET, HEAD, ...): no route matches
TsNoRoute ==
    /\ impl = "ts"
    /\ up
    /\ last' = Obs("noroute", NoId, NoRec, FALSE, 404, 0, <<>>, {}, <<>>)
    /\ UNCHANGED <<impl, up, optsWhitelist, held, acks, txn, tsVars, jsVars, created, issued, pure>>

\* store.toArray() called and the result kept by the caller
TsHold ==
    /\ impl = "ts"
    /\ up
    /\ held' = Returned(arr)
    /\ UNCHANGED <<impl, up, optsWhitelist, acks, txn, tsVars, jsVars, created, issued,
                   pure, last>>

\* wss.on('connection'): add the socket, send it the current list
WsConnect(c) ==
    /\ impl = "ts"
    /\ up
    /\ readyState[c] = "NONE"
    /\ readyState' = [readyState EXCEPT ![c] = "OPEN"]
    /\ wsClients' = wsClients \cup {c}
    /\ wsView' = Deliver(wsView, {c}, WsHello(arr))
    /\ last' = Obs("connect", NoId, NoRec, TRUE, 101, 0, WsHello(arr), {c},
                <<>>)
    /\ UNCHANGED <<impl, up, optsWhitelist, held, acks, txn, arr, tsPc, jsVars, created, issued, pure>>

\* the transport goes down; the 'close' event has not been delivered yet
WsTransportDown(c) ==
    /\ impl = "ts"
    /\ up
    /\ readyState[c] = "OPEN"
    /\ readyState' = [readyState EXCEPT ![c] = "CLOSED"]
    /\ wsView' = [wsView EXCEPT ![c] = NoView]
    /\ UNCHANGED <<impl, up, optsWhitelist, held, acks, txn, arr, wsClients, tsPc, jsVars, created, issued, pure,
                   last>>

\* ws.on('close') / ws.on('error'): wsClients.delete(ws)
WsOnClose(c) ==
    /\ impl = "ts"
    /\ up
    /\ readyState[c] = "CLOSED"
    /\ c \in wsClients
    /\ wsClients' = wsClients \ {c}
    /\ UNCHANGED <<impl, up, optsWhitelist, held, acks, txn, arr, readyState, wsView, tsPc, jsVars, created, issued, pure,
                   last>>

NextTs ==
    \/ \E s \in Sessions, address \in Senders : TsOnMailFrom(s, address)
    \/ \E s \in Sessions : TsOnData(s)
    \/ \E s \in Sessions, t \in Times, k \in Tokens : TsParsed(s, t, k)
    \/ \E s \in Sessions : TsParseFailed(s)
    \/ TsGetEmails
    \/ TsDeleteAll
    \/ \E seg \in TsSegments : TsDeleteById(seg)
    \/ TsNoRoute
    \/ \E c \in Clients : WsConnect(c)
    \/ \E c \in Clients : WsTransportDown(c)
    \/ \E c \in Clients : WsOnClose(c)

\* ------------------------------------------------------------ js: index.js
\* variant of the trim loop: mails.pop()
RECURSIVE JsTrimPop(_)
JsTrimPop(a) == IF Len(a) > max THEN JsTrimPop(SubSeq(a, 1, Len(a) - 1)) ELSE a

\* while (mails.length > config.max) mails.shift()
RECURSIVE JsTrim(_)
JsTrim(a) == IF Len(a) > max THEN JsTrim(Tail(a)) ELSE a

\* variant: the new mail is written over the last one
JsStoreOverLast(a, mail) ==
    IF a = <<>> THEN <<mail>> ELSE Append(SubSeq(a, 1, Len(a) - 1), mail)

\* variant: mails.unshift(mail), trimmed at the far end
JsStoreUnshift(a, mail) == SubSeq(<<mail>> \o a, 1, Min(Len(a) + 1, max))

\* mails.push(mail) followed by the trim loop
JsStore(a, mail) == JsTrim(Append(a, mail))

\* variant: id: emailIdCounter, the counter never incremented
JsNextIdNoInc(counter) == [id |-> counter, counter |-> counter]

\* id: emailIdCounter++  (the id used, and the counter afterwards)
JsNextId(counter) == [id |-> counter, counter |-> counter + 1]

\* variant: the clear handler takes the counter back by one
JsCounterRewound(counter) == IF counter > 0 THEN counter - 1 ELSE 0

\* variant: the clear handler also resets the counter
JsCounterReset(counter) == 0

\* DELETE /emails leaves emailIdCounter alone: the counter afterwards
JsCounterAfterClear(counter) == counter

\* variant: the count read after the array was emptied
JsClearCountAfter(a) == 0

\* const count = mails.length, read before mails.length = 0
JsClearCount(a) == Len(a)

\* /emails/<digits> with parseInt: the ids a request can name
JsIds == 0..MaxMsgs

\* segments of /emails/<segment> that are not all digits
JsOtherSegments == {<<"x">>, <<"%">>, <<"1", "x">>}

\* ------------------------------------------------------- js: queries
\* String.prototype.includes
Includes(hay, needle) ==
    \E i \in 0..(Len(hay) - Len(needle)) :
        SubSeq(hay, i + 1, i + Len(needle)) = needle

\* a || b on strings: the empty string is falsy
OrStr(a, b) == IF a # <<>> THEN a ELSE b

\* what simpleParser finds in each payload: From, To and Subject headers
\* (<<>> when the header is missing)
HeaderFrom(m)    == IF m = "a" THEN <<"A", "l">> ELSE <<"B", "o">>
HeaderTo(m)      == IF m = "a" THEN <<"b", "o">> ELSE <<>>
HeaderSubject(m) == IF m = "a" THEN <<"H", "i">> ELSE <<>>

\* the envelope of the session: req.from and req.to
EnvelopeFrom == <<"e", "v">>
EnvelopeTo   == <<"a", "l">>

\* subject: parsed.subject || '(no subject)'
NoSubject == <<"(", "n", "o", ")">>

\* the mail object built after parsing
MakeMail(id, m, ord) ==
    [id      |-> id,
     from    |-> OrStr(HeaderFrom(m), EnvelopeFrom),
     to      |-> OrStr(HeaderTo(m), EnvelopeTo),
     subject |-> OrStr(HeaderSubject(m), NoSubject),
     raw     |-> m,
     ord     |-> ord]

\* one filter step: if (query.f) filteredMails = filteredMails.filter(...)
FilterFrom(a, crit) ==
    LET Keep(mail) == Includes(ToLowerCase(mail.from), ToLowerCase(crit))
    IN  IF crit # <<>> THEN SelectSeq(a, Keep) ELSE a

FilterTo(a, crit) ==
    LET Keep(mail) == Includes(ToLowerCase(mail.to), ToLowerCase(crit))
    IN  IF crit # <<>> THEN SelectSeq(a, Keep) ELSE a

FilterSubject(a, crit) ==
    LET Keep(mail) == Includes(ToLowerCase(mail.subject), ToLowerCase(crit))
    IN  IF crit # <<>> THEN SelectSeq(a, Keep) ELSE a

\* the three filter steps on [...mails]
JsFilter(a, q) ==
    FilterSubject(FilterTo(FilterFrom(ToArray(a), q.from), q.to), q.subject)

\* parseInt: the value of the longest prefix of decimal digits, NaN without one
Digits == {"0", "1", "2", "3", "4", "5", "6", "7", "8", "9"}

DigitVal(ch) ==
    CASE ch = "0" -> 0 [] ch = "1" -> 1 [] ch = "2" -> 2 [] ch = "3" -> 3
      [] ch = "4" -> 4 [] ch = "5" -> 5 [] ch = "6" -> 6 [] ch = "7" -> 7
      [] ch = "8" -> 8 [] ch = "9" -> 9

RECURSIVE ParseDigits(_, _, _)
ParseDigits(str, i, acc) ==
    IF i > Len(str) \/ str[i] \notin Digits THEN acc
    ELSE ParseDigits(str, i + 1, 10 * acc + DigitVal(str[i]))

ParseInt(str) ==
    IF str = <<>> \/ str[1] \notin Digits
    THEN [nan |-> TRUE, n |-> 0]
    ELSE [nan |-> FALSE, n |-> ParseDigits(str, 1, 0)]

\* a || b on numbers: NaN and 0 are falsy
OrNum(r, d) == IF r.nan \/ r.n = 0 THEN d ELSE r.n

\* Array.prototype.slice(start, end) for start, end >= 0
Slice(a, start, end) == SubSeq(a, Min(start, Len(a)) + 1, Min(end, Len(a)))

\* variant: total taken from the page
JsTotalOfPage(filtered, page) == Len(page)

\* total: filteredMails.length
JsTotal(filtered, page) == Len(filtered)

\* the answer to GET /emails: total, limit, offset, emails
JsListResponse(a, q) ==
    LET filtered == JsFilter(a, q)
        limit    == OrNum(ParseInt(q.limit), Len(filtered))
        offset   == OrNum(ParseInt(q.offset), 0)
        page     == Slice(filtered, offset, offset + limit)
    IN  [total |-> JsTotal(filtered, page), limit |-> limit,
         offset |-> offset, emails |-> page]

\* the query strings requests carry
\* (filters alone and in pairs, every limit with every offset)
FilterCrits ==
    LET F(f, t, sj) == [from |-> f, to |-> t, subject |-> sj]
    IN  {F(<<>>, <<>>, <<>>),
         F(<<"a">>, <<>>, <<>>),
         F(<<>>, <<"L">>, <<>>),
         F(<<>>, <<>>, <<"h", "I">>),
         F(<<>>, <<>>, <<"z">>),
         F(<<"a">>, <<"L">>, <<>>),
         F(<<"a">>, <<>>, <<"h", "I">>)}
LimitParams  == {<<>>, <<"0">>, <<"1">>, <<"2">>, <<"x">>}
OffsetParams == {<<>>, <<"0">>, <<"1">>, <<"3">>}

Queries ==
    {[from |-> f.from, to |-> f.to, subject |-> f.subject,
      limit |-> l, offset |-> o] :
        f \in FilterCrits, l \in LimitParams, o \in OffsetParams}

\* the requests made while mail is arriving: no parameters, one filter, one
\* page
LiveQueries ==
    {NoQuery,
     [NoQuery EXCEPT !.subject = <<"h", "I">>],
     [NoQuery EXCEPT !.limit = <<"1">>, !.offset = <<"1">>]}

\* req.on('from'): ack.accept() or ack.reject()
JsOnFrom(s, from) ==
    /\ impl = "js"
    /\ up
    /\ jsPc[s] = "idle"
    /\ acks + Unanswered < MaxMsgs
    /\ LET ok == JsOnFromAccepts(JsWhitelist(optsWhitelist), from)
       IN  /\ jsPc' = [jsPc EXCEPT ![s] = IF ok THEN "mail" ELSE "idle"]
           /\ txn' = [txn EXCEPT ![s] = IF ok THEN [seen |-> acks, ack |-> 0]
                                        ELSE NoTxn]
           /\ last' = Obs("mailfrom", NoId, NoRec, ok, 0, 0, <<>>, {}, <<>>)
    /\ UNCHANGED <<impl, up, optsWhitelist, held, acks, tsVars, mails,
                   emailIdCounter, message, created, issued, pure>>

\* req.on('message'): fresh accumulator, handlers registered, ack.accept();
\* smtp-protocol emits it only in a transaction whose sender was accepted
JsOnMessage(s) ==
    /\ impl = "js"
    /\ up
    /\ jsPc[s] = "mail"
    /\ jsPc' = [jsPc EXCEPT ![s] = "receiving"]
    /\ message' = [message EXCEPT ![s] = ""]
    /\ UNCHANGED <<impl, up, optsWhitelist, held, acks, txn, tsVars, mails, emailIdCounter, created, issued, pure,
                   last>>

\* stream.on('data'): message += data
JsOnStreamData(s, d) ==
    /\ impl = "js"
    /\ up
    /\ jsPc[s] = "receiving"
    /\ message[s] = ""
    /\ message' = [message EXCEPT ![s] = d]
    /\ UNCHANGED <<impl, up, optsWhitelist, held, acks, txn, tsVars, mails, emailIdCounter, jsPc, created, issued,
                   pure, last>>

\* stream.on('end') up to `await simpleParser(message)`; '' is dropped. The
\* data has ended, so smtp-protocol answers the DATA command with 250 here.
JsOnStreamEnd(s) ==
    /\ impl = "js"
    /\ up
    /\ jsPc[s] = "receiving"
    /\ acks' = acks + 1
    /\ IF message[s] # ""
       THEN /\ jsPc' = [jsPc EXCEPT ![s] = "parsing"]
            /\ txn' = [txn EXCEPT ![s].ack = acks + 1]
       ELSE /\ jsPc' = [jsPc EXCEPT ![s] = "idle"]
            /\ txn' = [txn EXCEPT ![s] = NoTxn]
    /\ UNCHANGED <<impl, up, optsWhitelist, held, tsVars, mails, emailIdCounter,
                   message, created, issued, pure, last>>

\* stream.on('end') after the await: build mail, push, trim
JsParsed(s) ==
    /\ impl = "js"
    /\ up
    /\ jsPc[s] = "parsing"
    /\ LET n    == JsNextId(emailIdCounter)
           mail == MakeMail(n.id, message[s], created + 1) @@ txn[s]
       IN  /\ emailIdCounter' = n.counter
           /\ mails' = JsStore(mails, mail)
           /\ held' = Follow(held, JsStore(mails, mail))
           /\ issued' = issued \cup {mail.id}
           /\ last' = Obs("push", mail.id, mail, TRUE, 0,
                          Len(mails) + 1 - Len(JsStore(mails, mail)), <<>>, {},
                          <<>>)
    /\ created' = created + 1
    /\ jsPc' = [jsPc EXCEPT ![s] = "idle"]
    /\ message' = [message EXCEPT ![s] = ""]
    /\ txn' = [txn EXCEPT ![s] = NoTxn]
    /\ UNCHANGED <<impl, up, optsWhitelist, acks, tsVars, pure>>

\* stream.on('end') after the await, simpleParser rejected: cli.error
JsParseFailed(s) ==
    /\ impl = "js"
    /\ up
    /\ jsPc[s] = "parsing"
    /\ jsPc' = [jsPc EXCEPT ![s] = "idle"]
    /\ message' = [message EXCEPT ![s] = ""]
    /\ txn' = [txn EXCEPT ![s] = NoTxn]
    /\ last' = Obs("parse_error", NoId, NoRec, FALSE, 0, 0, <<>>, {}, <<>>)
    /\ UNCHANGED <<impl, up, optsWhitelist, held, acks, tsVars, mails,
                   emailIdCounter, created, issued, pure>>

\* GET /emails?from=..&to=..&subject=..&limit=..&offset=..
JsGetEmails(q) ==
    /\ impl = "js"
    /\ up
    /\ LET r == JsListResponse(mails, q)
       IN  last' = [Obs("list", NoId, NoRec, TRUE, 200, 0, <<>>, {}, r.emails)
                       EXCEPT !.http = [query |-> q, total |-> r.total,
                                        limit |-> r.limit, offset |-> r.offset]]
    /\ UNCHANGED <<impl, up, optsWhitelist, held, acks, txn, tsVars, jsVars, created, issued, pure>>

\* let filteredMails = [...mails], kept
JsHold ==
    /\ impl = "js"
    /\ up
    /\ held' = Returned(mails)
    /\ UNCHANGED <<impl, up, optsWhitelist, acks, txn, tsVars, jsVars, created, issued,
                   pure, last>>

\* GET /emails/:id
JsGetById(id) ==
    /\ impl = "js"
    /\ up
    /\ LET idx == FindIndexById(mails, id)
       IN  last' = IF idx # -1
                   THEN Obs("get", id, mails[idx + 1], TRUE, 200, 0, <<>>, {}, <<>>)
                   ELSE Obs("get", id, NoRec, FALSE, 404, 0, <<>>, {}, <<>>)
    /\ UNCHANGED <<impl, up, optsWhitelist, held, acks, txn, tsVars, jsVars, created, issued, pure>>

\* DELETE /emails/:id
JsDeleteById(id) ==
    /\ impl = "js"
    /\ up
    /\ LET idx == FindIndexById(mails, id)
       IN  IF idx # -1
           THEN /\ mails' = Splice1(mails, idx)
                /\ held' = Follow(held, Splice1(mails, idx))
                /\ last' = Obs("remove", id, mails[idx + 1], TRUE, 200, 0, <<>>,
                               {}, <<>>)
                /\ pure' = FALSE
           ELSE /\ mails' = mails
                /\ held' = held
                /\ last' = Obs("remove", id, NoRec, FALSE, 404, 0, <<>>, {}, <<>>)
                /\ pure' = pure
    /\ UNCHANGED <<impl, up, optsWhitelist, acks, txn, tsVars, emailIdCounter, jsPc, message,
                   created, issued>>

\* variant: emailCount taken from the newest id
JsHealthBodyByLastId(a) ==
    [emailCount |-> IF a = <<>> THEN 0 ELSE a[Len(a)].id + 1, maxEmails |-> max]

\* the counts in the body of GET /health: emailCount: mails.length,
\* maxEmails: config.max
JsHealthBody(a) == [emailCount |-> Len(a), maxEmails |-> max]

\* GET /health (or HEAD)
JsHealth ==
    /\ impl = "js"
    /\ up
    /\ last' = [Obs("health", NoId, NoRec, TRUE, 200, 0, <<>>, {}, <<>>)
                   EXCEPT !.http = JsHealthBody(mails)]
    /\ UNCHANGED <<impl, up, optsWhitelist, held, acks, txn, tsVars, jsVars, created, issued, pure>>

\* GET or DELETE /emails/<segment> with a segment that is not all digits:
\* neither /^\/emails\/\d+$/ test matches and the handler falls through
JsNoRoute(seg) ==
    /\ impl = "js"
    /\ up
    /\ \E i \in 1..Len(seg) : seg[i] \notin Digits
    /\ last' = Obs("noroute", NoId, NoRec, FALSE, 404, 0, <<>>, {}, <<>>)
    /\ UNCHANGED <<impl, up, optsWhitelist, held, acks, txn, tsVars, jsVars, created, issued, pure>>

\* DELETE /emails
JsDeleteAll ==
    /\ impl = "js"
    /\ up
    /\ mails' = <<>>
    /\ held' = Follow(held, <<>>)
    /\ emailIdCounter' = JsCounterAfterClear(emailIdCounter)
    /\ last' = Obs("clear", NoId, NoRec, TRUE, 200, JsClearCount(mails), <<>>, {},
                <<>>)
    /\ pure' = FALSE
    /\ UNCHANGED <<impl, up, optsWhitelist, acks, txn, tsVars, jsPc, message, created, issued>>

NextJs ==
    \/ \E s \in Sessions, from \in Senders : JsOnFrom(s, from)
    \/ \E s \in Sessions : JsOnMessage(s)
    \/ \E s \in Sessions, d \in LivePayloads : JsOnStreamData(s, d)
    \/ \E s \in Sessions : JsOnStreamEnd(s)
    \/ \E s \in Sessions : JsParsed(s)
    \/ \E s \in Sessions : JsParseFailed(s)
    \/ \E q \in LiveQueries : JsGetEmails(q)
    \/ \E id \in JsIds : JsGetById(id)
    \/ \E id \in JsIds : JsDeleteById(id)
    \/ \E seg \in JsOtherSegments : JsNoRoute(seg)
    \/ JsDeleteAll

Next == NextTs \/ NextJs

Spec == Init /\ [][Next]_vars

\* ------------------------------------------------ the SMTP side on its own
\* either implementation started with one of the whitelist options, taking
\* mail and answering list requests
InitWhitelist ==
    /\ impl \in {"ts", "js"}
    /\ up = TRUE
    /\ optsWhitelist \in WhitelistOptions
    /\ arr = <<>>
    /\ wsClients = {}
    /\ readyState = [c \in Clients |-> "NONE"]
    /\ wsView = [c \in Clients |-> NoView]
    /\ tsPc = [s \in Sessions |-> "idle"]
    /\ mails = <<>>
    /\ emailIdCounter = 0
    /\ jsPc = [s \in Sessions |-> "idle"]
    /\ message = [s \in Sessions |-> ""]
    /\ created = 0
    /\ issued = {}
    /\ pure = TRUE
    /\ held = NoHeld
    /\ acks = 0
    /\ txn = [s \in Sessions |-> NoTxn]
    /\ last = Obs("init", NoId, NoRec, FALSE, 0, 0, <<>>, {}, <<>>)

NextSmtp ==
    \/ \E s \in Sessions, address \in Senders : TsOnMailFrom(s, address)
    \/ \E s \in Sessions : TsOnData(s)
    \/ \E s \in Sessions, t \in Times, k \in Tokens : TsParsed(s, t, k)
    \/ \E s \in Sessions : TsParseFailed(s)
    \/ TsGetEmails
    \/ \E s \in Sessions, from \in Senders : JsOnFrom(s, from)
    \/ \E s \in Sessions : JsOnMessage(s)
    \/ \E s \in Sessions, d \in LivePayloads : JsOnStreamData(s, d)
    \/ \E s \in Sessions : JsOnStreamEnd(s)
    \/ \E s \in Sessions : JsParsed(s)
    \/ \E s \in Sessions : JsParseFailed(s)
    \/ JsGetEmails(NoQuery)

SpecWhitelist == InitWhitelist /\ [][NextSmtp]_vars

\* ---------------------------------------------- kept snapshots on their own
\* the store written to by mail, deletes and clears while a caller keeps an
\* array it got earlier
NextSnapshot ==
    \/ \E s \in Sessions, address \in Senders : TsOnMailFrom(s, address)
    \/ \E s \in Sessions : TsOnData(s)
    \/ \E s \in Sessions, t \in Times, k \in Tokens : TsParsed(s, t, k)
    \/ TsDeleteAll
    \/ \E seg \in TsIds : TsDeleteById(seg)
    \/ TsHold
    \/ \E s \in Sessions, from \in Senders : JsOnFrom(s, from)
    \/ \E s \in Sessions : JsOnMessage(s)
    \/ \E s \in Sessions, d \in LivePayloads : JsOnStreamData(s, d)
    \/ \E s \in Sessions : JsOnStreamEnd(s)
    \/ \E s \in Sessions : JsParsed(s)
    \/ \E id \in JsIds : JsDeleteById(id)
    \/ JsDeleteAll
    \/ JsHold

SpecSnapshot == Init /\ [][NextSnapshot]_vars

\* ------------------------------------- index.ts: every way onData can end
\* started without a whitelist, or with one that admits a single sender
InitOnData ==
    /\ InitWhitelist
    /\ impl = "ts"
    /\ optsWhitelist \in {<<>>, << <<"b">> >>}

\* the SMTP handlers of the TypeScript sink with every outcome of onData,
\* subscribers connecting, and GET /emails
NextOnData ==
    \/ \E s \in Sessions, address \in Senders : TsOnMailFrom(s, address)
    \/ \E s \in Sessions : TsOnData(s)
    \/ \E s \in Sessions, t \in Times, k \in Tokens : TsParsed(s, t, k)
    \/ \E s \in Sessions : TsParseFailed(s)
    \/ \E s \in Sessions : TsBuildFailed(s)
    \/ \E s \in Sessions, t \in Times, k \in Tokens : TsNotifyFailed(s, t, k)
    \/ TsGetEmails
    \/ \E c \in Clients : WsConnect(c)

SpecOnData == InitOnData /\ [][NextOnData]_vars

\* ------------------------------- the original sink (dist/cli.js:327-394)
\* while (mails.length > config.max) mails.splice(1, 1)
\* (for max >= 1; with max = 0 the loop removes nothing and never ends)
RECURSIVE OrigTrim(_)
OrigTrim(a) == IF Len(a) > max /\ Len(a) > 1 THEN OrigTrim(Splice1(a, 1)) ELSE a

\* mails.push(mail) followed by the trim loop
OrigStore(a, mail) == OrigTrim(Append(a, mail))

\* the mail object: to, from and the payload as message
OrigMail(m, ord) ==
    [to |-> EnvelopeTo, from |-> EnvelopeFrom, message |-> m, ord |-> ord]

InitOrig ==
    /\ impl = "cjs"
    /\ up = TRUE
    /\ optsWhitelist = <<>>
    /\ arr = <<>>
    /\ wsClients = {}
    /\ readyState = [c \in Clients |-> "NONE"]
    /\ wsView = [c \in Clients |-> NoView]
    /\ tsPc = [s \in Sessions |-> "idle"]
    /\ mails = <<>>
    /\ emailIdCounter = 0
    /\ jsPc = [s \in Sessions |-> "idle"]
    /\ message = [s \in Sessions |-> ""]
    /\ created = 0
    /\ issued = {}
    /\ pure = TRUE
    /\ held = NoHeld
    /\ acks = 0
    /\ txn = [s \in Sessions |-> NoTxn]
    /\ last = Obs("init", NoId, NoRec, FALSE, 0, 0, <<>>, {}, <<>>)

\* req.on('from'): ack.accept() or ack.reject()
OrigOnFrom(s, from) ==
    /\ impl = "cjs"
    /\ jsPc[s] = "idle"
    /\ created + InFlight < MaxMsgs
    /\ LET ok == JsOnFromAccepts(optsWhitelist, from)
       IN  /\ jsPc' = [jsPc EXCEPT ![s] = IF ok THEN "mail" ELSE "idle"]
           /\ last' = Obs("mailfrom", NoId, NoRec, ok, 0, 0, <<>>, {}, <<>>)
    /\ UNCHANGED <<impl, up, optsWhitelist, held, acks, txn, tsVars, mails,
                   emailIdCounter, message, created, issued, pure>>

\* req.on('message'): var message = "", handlers registered, ack.accept()
OrigOnMessage(s) ==
    /\ impl = "cjs"
    /\ jsPc[s] = "mail"
    /\ jsPc' = [jsPc EXCEPT ![s] = "receiving"]
    /\ message' = [message EXCEPT ![s] = ""]
    /\ UNCHANGED <<impl, up, optsWhitelist, held, acks, txn, tsVars, mails,
                   emailIdCounter, created, issued, pure, last>>

\* stream.on('data'): message += d
OrigOnStreamData(s, d) ==
    /\ impl = "cjs"
    /\ jsPc[s] = "receiving"
    /\ message[s] = ""
    /\ message' = [message EXCEPT ![s] = d]
    /\ UNCHANGED <<impl, up, optsWhitelist, held, acks, txn, tsVars, mails,
                   emailIdCounter, jsPc, created, issued, pure, last>>

\* stream.on('end'): message is not null, so the mail is built, pushed and
\* the list trimmed, whatever the payload
OrigOnStreamEnd(s) ==
    /\ impl = "cjs"
    /\ jsPc[s] = "receiving"
    /\ LET mail == OrigMail(message[s], created + 1)
       IN  /\ mails' = OrigStore(mails, mail)
           /\ last' = Obs("push", NoId, mail, TRUE, 0,
                          Len(mails) + 1 - Len(OrigStore(mails, mail)), <<>>, {},
                          <<>>)
    /\ created' = created + 1
    /\ jsPc' = [jsPc EXCEPT ![s] = "idle"]
    /\ message' = [message EXCEPT ![s] = ""]
    /\ UNCHANGED <<impl, up, optsWhitelist, held, acks, txn, tsVars,
                   emailIdCounter, issued, pure>>

\* GET /emails: JSON.stringify(mails)
OrigGetEmails ==
    /\ impl = "cjs"
    /\ last' = Obs("list", NoId, NoRec, TRUE, 200, 0, <<>>, {}, ToArray(mails))
    /\ UNCHANGED <<impl, up, optsWhitelist, held, acks, txn, tsVars, jsVars,
                   created, issued, pure>>

\* any other url: 404
OrigNotFound ==
    /\ impl = "cjs"
    /\ last' = Obs("noroute", NoId, NoRec, FALSE, 404, 0, <<>>, {}, <<>>)
    /\ UNCHANGED <<impl, up, optsWhitelist, held, acks, txn, tsVars, jsVars,
                   created, issued, pure>>

NextOrig ==
    \/ \E s \in Sessions, from \in Senders : OrigOnFrom(s, from)
    \/ \E s \in Sessions : OrigOnMessage(s)
    \/ \E s \in Sessions, d \in Subjects : OrigOnStreamData(s, d)
    \/ \E s \in Sessions : OrigOnStreamEnd(s)
    \/ OrigGetEmails
    \/ OrigNotFound

SpecOrig == InitOrig /\ [][NextOrig]_vars

\* ------------------------------------------- index.js: health while mail moves
\* index.js alone
InitJs == Init /\ impl = "js"

\* messages arriving on the sessions, deletes, and health requests in between
NextHealth ==
    \/ \E s \in Sessions, from \in Senders : JsOnFrom(s, from)
    \/ \E s \in Sessions : JsOnMessage(s)
    \/ \E s \in Sessions, d \in LivePayloads : JsOnStreamData(s, d)
    \/ \E s \in Sessions : JsOnStreamEnd(s)
    \/ \E s \in Sessions : JsParsed(s)
    \/ \E s \in Sessions : JsParseFailed(s)
    \/ \E id \in JsIds : JsDeleteById(id)
    \/ JsDeleteAll
    \/ JsHealth

SpecHealth == InitJs /\ [][NextHealth]_vars

\* ---------------------------------------------- index.js under fair scheduling
\* the event loop runs every callback that is ready: the 'message' event of
\* an accepted transaction, the end of its data, and the continuation of
\* `await simpleParser(message)`, which resumes in the try block or in the
\* catch block as the parser decides
FairJs ==
    \A s \in Sessions :
        /\ WF_vars(JsOnMessage(s))
        /\ WF_vars(JsOnStreamEnd(s))
        /\ WF_vars(JsParsed(s) \/ JsParseFailed(s))

SpecJsFair == InitJs /\ [][NextJs]_vars /\ FairJs

\* ------------------------------------------- the query engine on its own
\* index.js after n messages were stored and some of the resident ones were
\* deleted by id, then asked every query
RECURSIVE SortedSeq(_)
SortedSeq(S) ==
    IF S = {} THEN <<>>
    ELSE LET m == CHOOSE x \in S : \A y \in S : x <= y
         IN  <<m>> \o SortedSeq(S \ {m})

StoresAfter(n) ==
    LET window == {i \in 0..(n - 1) : i >= n - max}
    IN  {[k \in 1..Len(SortedSeq(S)) |->
             MakeMail(SortedSeq(S)[k], f[SortedSeq(S)[k]], SortedSeq(S)[k] + 1)] :
         <<S, f>> \in {<<S2, f2>> \in
                          UNION {{<<S3, f3>> : f3 \in [S3 -> Subjects]} :
                                 S3 \in SUBSET window} : TRUE}}

InitQuery ==
    /\ impl = "js"
    /\ up = TRUE
    /\ optsWhitelist = <<>>
    /\ arr = <<>>
    /\ wsClients = {}
    /\ readyState = [c \in Clients |-> "NONE"]
    /\ wsView = [c \in Clients |-> NoView]
    /\ tsPc = [s \in Sessions |-> "idle"]
    /\ \E n \in 0..MaxMsgs :
          /\ emailIdCounter = n
          /\ created = n
          /\ issued = 0..(n - 1)
          /\ mails \in StoresAfter(n)
          /\ pure = (Len(mails) = Min(n, max))
    /\ jsPc = [s \in Sessions |-> "idle"]
    /\ message = [s \in Sessions |-> ""]
    /\ held = NoHeld
    /\ acks = created
    /\ txn = [s \in Sessions |-> NoTxn]
    /\ last = Obs("init", NoId, NoRec, FALSE, 0, 0, <<>>, {}, <<>>)

NextQuery == \E q \in Queries : JsGetEmails(q)

SpecQuery == InitQuery /\ [][NextQuery]_vars

\* ================================================================ claims
Store == IF impl = "ts" THEN arr ELSE mails

Ids(a) == {a[i].id : i \in 1..Len(a)}

\* ids that were given to a record which is no longer resident
Gone == issued \ Ids(mails)

\* C1: in every reachable state the store holds at most max records, and
\* every snapshot handed to a reader (the list an HTTP reader gets, the list
\* sent to WebSocket clients) has at most max records.
C1_SizeAtMostMax ==
    /\ Len(arr) <= max
    /\ Len(mails) <= max
    /\ Len(last.snap) <= max
    /\ \A i \in 1..Len(last.notes) : Len(last.notes[i]) <= max

\* a reader got a full list after at least one eviction
C1_Witness ==
    /\ last.op = "list"
    /\ Len(last.snap) = max
    /\ created > max

\* C2: as long as nothing was removed or cleared, after n pushes the store
\* holds exactly min(n, max) records, and they are the last min(n, max)
\* records pushed, in push order.
C2_LastPushedKept ==
    pure =>
        /\ Len(Store) = Min(created, max)
        /\ \A i \in 1..Len(Store) : Store[i].ord = created - Len(Store) + i

\* more pushes than the capacity, nothing removed or cleared
C2_Witness ==
    /\ impl = "ts"
    /\ pure
    /\ created > max
    /\ last.op = "push"

\* C3: a push onto a full store removes exactly the head and appends the
\* new record after the others, kept in order; a push onto a store that is
\* not full removes nothing. This holds in any state.
C3_StrictFifo ==
    [][created' # created =>
          /\ last'.op = "push"
          /\ IF Len(Store) >= max
             THEN /\ Store' = Append(Tail(Store), last'.rec)
                  /\ last'.count = 1
             ELSE /\ Store' = Append(Store, last'.rec)
                  /\ last'.count = 0]_vars

\* a push evicted the head after an earlier remove or clear
C3_Witness ==
    /\ last.op = "push"
    /\ last.count = 1
    /\ ~pure

\* C4: every snapshot a reader obtains is the store as it stands at the
\* handler's place in the one order in which the handlers ran: the list of
\* an HTTP reader and every list sent to a WebSocket client equal the store
\* after the mutations that ran before it, never more than max records.
C4_SnapshotsSerialized ==
    /\ (last.op = "list" /\ last.http.query = NoQuery) => last.snap = Store
    /\ \A i \in 1..Len(last.notes) :
          /\ last.notes[i] = arr
          /\ Len(last.notes[i]) <= max

\* a push that filled the store was broadcast to an open client while
\* another session was still parsing
C4_Witness ==
    /\ last.op = "push"
    /\ Len(arr) = max
    /\ last.to # {}
    /\ \E s \in Sessions : tsPc[s] = "parsing"

\* C5: in index.js no two records ever created get the same id, whatever
\* the interleaving of sessions, evictions, deletes and clears.
C5_JsIdsNeverReused ==
    impl = "js" =>
        /\ Cardinality(issued) = created
        /\ \A i, j \in 1..Len(mails) : mails[i].id = mails[j].id => i = j

\* a record was created after an eviction and after a delete or clear
C5_Witness ==
    /\ impl = "js"
    /\ last.op = "push"
    /\ ~pure
    /\ created > max
\* C6: in the TypeScript sink any two records created by one instance have
\* different ids, also when created at the same instant (checked on the
\* records resident together: two distinct records never share an id).
C6_TsIdsDistinct ==
    impl = "ts" =>
        \A i, j \in 1..Len(arr) : arr[i].id = arr[j].id => i = j

\* C7: in index.js, once the record with some id has left the store, that
\* id stays absent for ever: it never becomes resident again, and every
\* later get-by-id or delete-by-id that names it answers 404.
C7_GoneStaysGone ==
    [][impl = "js" =>
          \A i \in Gone :
              /\ i \in Gone'
              /\ (\/ JsGetById(i)
                  \/ JsDeleteById(i)) => last'.status = 404]_vars

\* a get-by-id for a departed id answered 404 while a record received
\* later is resident
C7_Witness ==
    /\ impl = "js"
    /\ last.op = "get"
    /\ last.id \in Gone
    /\ last.status = 404
    /\ \E k \in 1..Len(mails) : mails[k].id > last.id

\* C8: remove(id) on a store that holds a record with that id removes that
\* one record (the first with the id), reports the removal, and leaves the
\* others present and in their order; the size drops by exactly 1.
C8_RemoveExactlyOne ==
    [][/\ \A id \in TsIds :
             (TsDeleteById(id) /\ id \in Ids(arr)) =>
                 \E k \in 1..Len(arr) :
                     /\ arr[k].id = id
                     /\ \A j \in 1..(k - 1) : arr[j].id # id
                     /\ arr' = SubSeq(arr, 1, k - 1) \o SubSeq(arr, k + 1, Len(arr))
                     /\ Len(arr') = Len(arr) - 1
                     /\ last'.ret = TRUE
                     /\ last'.status = 204
       /\ \A id \in JsIds :
             (JsDeleteById(id) /\ id \in Ids(mails)) =>
                 \E k \in 1..Len(mails) :
                     /\ mails[k].id = id
                     /\ mails' = SubSeq(mails, 1, k - 1)
                                 \o SubSeq(mails, k + 1, Len(mails))
                     /\ Len(mails') = Len(mails) - 1
                     /\ last'.ret = TRUE
                     /\ last'.rec = mails[k]
                     /\ last'.status = 200]_vars

\* the head of a full store was removed and the other record stayed
C8_Witness ==
    /\ impl = "ts"
    /\ last.op = "remove"
    /\ last.ret
    /\ Len(arr) = max - 1
    /\ last.id \notin Ids(arr)
    /\ arr[1].ord > 1

\* C9: removing an id that is not resident answers not-found, leaves the
\* store as it was, and notifies no subscriber.
C9_RemoveAbsentIsNoOp ==
    [][/\ \A id \in TsIds :
             (TsDeleteById(id) /\ id \notin Ids(arr)) =>
                 /\ arr' = arr
                 /\ last'.ret = FALSE
                 /\ last'.status = 404
                 /\ last'.notes = <<>>
                 /\ last'.to = {}
       /\ \A id \in JsIds :
             (JsDeleteById(id) /\ id \notin Ids(mails)) =>
                 /\ mails' = mails
                 /\ last'.ret = FALSE
                 /\ last'.status = 404]_vars

\* an absent id was removed from a non-empty store with an open subscriber
C9_Witness ==
    /\ impl = "ts"
    /\ last.op = "remove"
    /\ ~last.ret
    /\ Len(arr) > 0
    /\ BroadcastTargets # {}

\* C10: clear() empties the store in one step, so a list read before any
\* further push is empty, and it calls onChange exactly once on every
\* call, also when the store was already empty.
C10_ClearEmptiesAndNotifiesOnce ==
    [][/\ TsDeleteAll =>
             /\ arr' = <<>>
             /\ Len(last'.notes) = 1
             /\ last'.notes[1] = <<>>
             /\ last'.to = BroadcastTargets
       /\ (last.op = "clear" /\ TsGetEmails) => last'.snap = <<>>]_vars

\* an already empty store was cleared and an open subscriber was notified
C10_Witness ==
    /\ impl = "ts"
    /\ last.op = "clear"
    /\ last.count = 0
    /\ Len(last.notes) = 1
    /\ last.to # {}
\* C11: delete-all in index.js reports the number of records that were
\* resident just before the clear, in every store state (0 on an empty
\* store), and leaves the store empty.
C11_ClearReportsPreClearCount ==
    [][JsDeleteAll =>
          /\ last'.count = Len(mails)
          /\ last'.status = 200
          /\ mails' = <<>>]_vars

\* a full store was cleared and the answer carried count = max
C11_Witness ==
    /\ impl = "js"
    /\ last.op = "clear"
    /\ last.count = max
    /\ mails = <<>>

\* C12: every push in the TypeScript sink calls onChange exactly once,
\* whether or not the push evicted a record.
C12_PushNotifiesOnce ==
    [][(impl = "ts" /\ created' # created) =>
          /\ last'.op = "push"
          /\ Len(last'.notes) = 1]_vars

\* a push that evicted nothing notified once
C12_Witness ==
    /\ impl = "ts"
    /\ last.op = "push"
    /\ last.count = 0
    /\ Len(last.notes) = 1
\* the sockets that are connected and open
OpenClients == {c \in Clients : readyState[c] = "OPEN"}

\* a step of the TypeScript sink that changes the store's content
TsMutation ==
    /\ impl = "ts"
    /\ \/ created' # created
       \/ TsDeleteAll
       \/ \E id \in TsIds : TsDeleteById(id) /\ id \in Ids(arr)

C15_DeadSubscriberIsHarmless ==
    [][/\ (TsMutation /\ \E c \in wsClients : readyState[c] # "OPEN") =>
             /\ last'.ret = TRUE
             /\ last'.status \in {250, 204}
             /\ Len(last'.notes) = 1
             /\ last'.to = OpenClients
             /\ wsClients' = wsClients
       /\ \A c \in Clients :
             WsOnClose(c) =>
                 /\ wsClients' = wsClients \ {c}
                 /\ arr' = arr
                 /\ last' = last]_vars

\* a push was accepted and reached the open subscriber while a dead one
\* was still in the set
C15_Witness ==
    /\ impl = "ts"
    /\ last.op = "push"
    /\ last.ret
    /\ last.to # {}
    /\ \E c \in wsClients : readyState[c] = "CLOSED" /\ c \notin last.to

\* C16: a subscriber goes from connected to disconnected and never back:
\* once its transport is down it stays down, once out of the fan-out set
\* it stays out, and no event is sent to it any more.
C16_DisconnectedIsFinal ==
    [][\A c \in Clients :
          readyState[c] = "CLOSED" =>
              /\ readyState'[c] = "CLOSED"
              /\ (c \notin wsClients => c \notin wsClients')
              /\ (last' # last => c \notin last'.to)
              /\ wsView'[c] = NoView]_vars

\* a mutation was broadcast after a subscriber had been removed from the set
C16_Witness ==
    /\ impl = "ts"
    /\ last.op = "clear"
    /\ last.to # {}
    /\ \E c \in Clients : readyState[c] = "CLOSED" /\ c \notin wsClients

\* ---------------------------------------------- listing: what is asked for
\* two characters that differ at most in case
CasePairs ==
    {<<"A", "a">>, <<"B", "b">>, <<"H", "h">>, <<"I", "i">>, <<"L", "l">>,
     <<"N", "n">>, <<"O", "o">>}

SameLetter(x, y) == x = y \/ <<x, y>> \in CasePairs \/ <<y, x>> \in CasePairs

\* needle occurs in hay, case ignored; the empty needle occurs everywhere
ContainsCI(hay, needle) ==
    \E i \in 0..(Len(hay) - Len(needle)) :
        \A k \in 1..Len(needle) : SameLetter(hay[i + k], needle[k])

Matches(mail, q) ==
    /\ ContainsCI(mail.from, q.from)
    /\ ContainsCI(mail.to, q.to)
    /\ ContainsCI(mail.subject, q.subject)

\* the records of the store the filters of q ask for, in store order
Wanted(q) == LET Keep(mail) == Matches(mail, q) IN SelectSeq(mails, Keep)

JsListed == impl = "js" /\ last.op = "list"

\* a parameter that is a non-negative integer, and its value
IsNumber(str) == str # <<>> /\ \A i \in 1..Len(str) : str[i] \in Digits

NumberOf(str) == ParseDigits(str, 1, 0)

\* C17: a filtered list of index.js has as total the number of stored
\* records whose from, to and subject each contain the given criterion,
\* case ignored (all criteria together, an absent one matching everything);
\* the page is a run of those records in store order, all of them when no
\* limit and offset are given; a subject found in no record gives total 0
\* and an empty page.
C17_FilterIsConjunctiveCaseInsensitive ==
    JsListed =>
        LET q    == last.http.query
            want == Wanted(q)
        IN  /\ last.http.total = Len(want)
            /\ \E i \in 0..Len(want) :
                   last.snap = SubSeq(want, i + 1, i + Len(last.snap))
            /\ (q.limit = <<>> /\ q.offset = <<>>) => last.snap = want
            /\ (\A k \in 1..Len(mails) :
                    ~ContainsCI(mails[k].subject, q.subject)) =>
                   (last.http.total = 0 /\ last.snap = <<>>)

\* two records are stored and a from and a subject criterion in the other
\* case pick exactly one of them
C17_Witness ==
    /\ JsListed
    /\ last.http.query.from = <<"a">>
    /\ last.http.query.subject = <<"h", "I">>
    /\ last.http.query.limit = <<>>
    /\ last.http.query.offset = <<>>
    /\ Len(mails) = 2
    /\ last.http.total = 1
    /\ Len(last.snap) = 1

\* C18: for every non-negative integer limit and offset, limit = 0
\* included, the page is the records offset .. offset+limit-1 of the
\* filtered result, cut at its end, so it has min(limit, max(0, total -
\* offset)) records; without a limit it is everything from offset on, and
\* an absent offset is 0.
C18_PageIsRequestedWindow ==
    JsListed =>
        LET q    == last.http.query
            want == Wanted(q)
            off  == IF q.offset = <<>> THEN 0 ELSE NumberOf(q.offset)
            lim  == IF q.limit = <<>> THEN Len(want) ELSE NumberOf(q.limit)
        IN  ((q.limit = <<>> \/ IsNumber(q.limit)) /\
             (q.offset = <<>> \/ IsNumber(q.offset))) =>
                /\ last.snap = SubSeq(want, off + 1, Min(off + lim, Len(want)))
                /\ IsNumber(q.limit) =>
                       Len(last.snap) =
                           Min(lim, IF Len(want) > off THEN Len(want) - off
                                    ELSE 0)

\* C19: a list whose offset is at or past the filtered total is answered
\* with status 200, an empty page and the full filtered total.
C19_OffsetBeyondTotalIsEmptyPage ==
    JsListed =>
        LET q    == last.http.query
            want == Wanted(q)
        IN  (IsNumber(q.offset) /\ NumberOf(q.offset) >= Len(want)) =>
                /\ last.status = 200
                /\ last.ret
                /\ last.snap = <<>>
                /\ last.http.total = Len(want)

\* two records match and the page asked for starts at the fourth
C19_Witness ==
    /\ JsListed
    /\ last.http.query.offset = <<"3">>
    /\ last.http.total = 2
    /\ last.snap = <<>>
    /\ last.status = 200

\* C20: the list response carries as total the number of records matching
\* the filters, whatever limit and offset are, and gives back the limit and
\* the offset of the request whenever they are non-negative integers.
C20_TotalAndParamsEchoed ==
    JsListed =>
        LET q == last.http.query
        IN  /\ last.http.total = Len(Wanted(q))
            /\ IsNumber(q.limit) => last.http.limit = NumberOf(q.limit)
            /\ IsNumber(q.offset) => last.http.offset = NumberOf(q.offset)

\* C21: a get-by-id or delete-by-id for an id that is not resident answers
\* not-found and never raises: whatever the segment of /emails/<segment>,
\* the handler ends with the success response or a not-found response, and
\* the server goes on serving requests.
C21_NotFoundNeverRaises ==
    /\ up
    /\ last.op \in {"get", "remove", "noroute"} =>
           /\ last.status \in {200, 204, 404}
           /\ last.ret <=> last.status \in {200, 204}

\* ------------------------------------------- whitelist: what is asked for
\* two strings equal up to case
SameCI(x, y) ==
    Len(x) = Len(y) /\ \A i \in 1..Len(x) : SameLetter(x[i], y[i])

\* str without the blanks around it
Stripped(str) ==
    LET inner == {i \in 1..Len(str) : str[i] # " "}
    IN  IF inner = {} THEN <<>>
        ELSE SubSeq(str, CHOOSE i \in inner : \A j \in inner : i <= j,
                         CHOOSE i \in inner : \A j \in inner : i >= j)

\* the entries of the whitelist option that are not blank
Entries == {Stripped(optsWhitelist[i]) : i \in 1..Len(optsWhitelist)} \ {<<>>}

\* the list the running implementation consults, and a sender that is on it
\* under no reading (ts: up to case and blanks, js: literally)
Consulted ==
    IF impl = "ts" THEN Whitelist(optsWhitelist) ELSE JsWhitelist(optsWhitelist)

Unlisted(a) ==
    IF impl = "ts" THEN \A e \in Entries : ~SameCI(a, e)
    ELSE \A i \in 1..Len(optsWhitelist) : optsWhitelist[i] # a

Pc == IF impl = "ts" THEN tsPc ELSE jsPc

\* C22: the whitelist is enforced at MAIL FROM, before any data: with a
\* non-empty whitelist a sender that is not on it is rejected (550 in the
\* TypeScript sink), its session does not reach the data phase and the store
\* is left alone; with an empty whitelist every sender is accepted. A
\* session reaches the data phase only through an accepted MAIL FROM, and a
\* record is added only by a session in the data phase.
C22_WhitelistBeforeData ==
    [][/\ \A s \in Sessions, a \in Senders :
             (TsOnMailFrom(s, a) \/ JsOnFrom(s, a)) =>
                 /\ (Consulted # <<>> /\ Unlisted(a)) =>
                        /\ ~last'.ret
                        /\ impl = "ts" => last'.status = 550
                        /\ Pc'[s] = "idle"
                        /\ Store' = Store
                 /\ Consulted = <<>> =>
                        /\ last'.ret
                        /\ Pc'[s] = "mail"
       /\ \A s \in Sessions :
             (Pc[s] = "idle" /\ Pc'[s] # "idle") =>
                 (last'.op = "mailfrom" /\ last'.ret /\ Pc'[s] = "mail")
       /\ created' # created =>
             \E s \in Sessions : Pc[s] = "parsing" /\ Pc'[s] = "idle"
       /\ \A s \in Sessions :
             Pc'[s] = "parsing" => Pc[s] \in {"mail", "receiving", "parsing"}]_vars

\* with the whitelist set to b, a sender other than b was turned away by
\* the TypeScript sink while a record of an accepted sender is stored
C22_Witness ==
    /\ impl = "ts"
    /\ optsWhitelist = << <<"b">> >>
    /\ last.op = "mailfrom"
    /\ last.status = 550
    /\ Len(arr) = 1

\* C23: the TypeScript sink accepts a sender exactly when its whitelist has
\* no entry left once blank entries are dropped, or when the sender equals,
\* up to case, some entry with the blanks around it removed.
C23_WhitelistNormalised ==
    [][\A s \in Sessions, a \in Senders :
          TsOnMailFrom(s, a) =>
              (last'.ret <=> (Entries = {} \/ \E e \in Entries : SameCI(a, e)))]_vars

\* the whitelist holds " A" and an empty entry, and the sender a was accepted
\* and its record stored
C23_Witness ==
    /\ impl = "ts"
    /\ optsWhitelist = << <<" ", "A">>, <<>> >>
    /\ last.op = "push"
    /\ Len(arr) = 1

\* the fields of a complete record
Complete(rec) ==
    DOMAIN rec = IF impl = "ts" THEN {"id", "ord"}
                 ELSE {"id", "from", "to", "subject", "raw", "ord", "seen", "ack"}

\* C24: a message whose parsing fails leaves the store, the id counter and
\* the subscribers exactly as they were; a message whose parsing succeeds
\* adds exactly one complete record, at the end of the store. Nothing else
\* is ever added for a message.
C24_ParseFailureLeavesStore ==
    [][/\ \A s \in Sessions :
             (TsParseFailed(s) \/ JsParseFailed(s)) =>
                 /\ Store' = Store
                 /\ created' = created
                 /\ emailIdCounter' = emailIdCounter
                 /\ wsView' = wsView
                 /\ last'.notes = <<>>
                 /\ ~last'.ret
       /\ \A s \in Sessions :
             ((\E t \in Times, k \in Tokens : TsParsed(s, t, k)) \/ JsParsed(s)) =>
                 /\ created' = created + 1
                 /\ Complete(last'.rec)
                 /\ Store'[Len(Store')] = last'.rec
                 /\ Cardinality({i \in 1..Len(Store') :
                                    Store'[i].ord = created'}) = 1
                 /\ \A i \in 1..(Len(Store') - 1) :
                        \E j \in 1..Len(Store) : Store[j] = Store'[i]
       /\ Store' # Store =>
             \/ created' = created + 1
             \/ last'.op \in {"remove", "clear"}]_vars

\* parsing failed in the TypeScript sink while a record was stored and a
\* subscriber was listening
C24_Witness ==
    /\ impl = "ts"
    /\ last.op = "parse_error"
    /\ Len(arr) = 1
    /\ BroadcastTargets # {}

\* ------------------------------------------------------------------ order
\* records stand in the order in which their pushes were made
InPushOrder(a) == \A i, j \in 1..Len(a) : i < j => a[i].ord < a[j].ord

\* the sequences handed out by the last handler and held by the subscribers
SnapshotsOf(l, w) ==
    {l.snap} \cup {l.notes[i] : i \in 1..Len(l.notes)}
             \cup {w[c].data : c \in Clients}

\* C25: a record whose push was made after another push had completed
\* stands behind that record in the store and in every snapshot that holds
\* both.
C25_LaterPushStandsBehind ==
    /\ InPushOrder(Store)
    /\ \A a \in SnapshotsOf(last, wsView) : InPushOrder(a)

\* index.js lists two records received one after the other, the first
\* records having been evicted or deleted
C25_Witness ==
    /\ impl = "js"
    /\ last.op = "list"
    /\ Len(last.snap) = 2
    /\ last.snap[1].ord > 1

OrdsOf(a) == {a[i].ord : i \in 1..Len(a)}

Before(a, x, y) ==
    \E i, j \in 1..Len(a) : i < j /\ a[i].ord = x /\ a[j].ord = y

\* records that are in both sequences stand in the same order in both
SameOrder(a, b) ==
    \A x, y \in OrdsOf(a) \cap OrdsOf(b) : Before(a, x, y) <=> Before(b, x, y)

\* C26: no record is ever reordered: two records that are both in the store
\* or a snapshot before a handler runs and both in the store or a snapshot
\* after it stand in the same order in both, whatever the handler (push,
\* eviction, remove, clear, list, subscriber traffic).
C26_NeverReordered ==
    [][\A a \in {Store} \cup SnapshotsOf(last, wsView),
          b \in {Store'} \cup SnapshotsOf(last', wsView') : SameOrder(a, b)]_vars

\* a subscriber holds two records and a reader lists the same two
C26_Witness ==
    /\ impl = "ts"
    /\ last.op = "list"
    /\ Len(last.snap) = 2
    /\ ~pure
    /\ \E c \in Clients : wsView[c].got /\ Len(wsView[c].data) = 2

\* C27: the array returned by toArray() / the list endpoint's copy is
\* independent of the store: no later push, eviction, remove or clear
\* changes its length, its members or their order.
C27_SnapshotIsIndependent ==
    [][(held.taken /\ ~TsHold /\ ~JsHold) => held' = held]_vars

\* a caller holds two records while the store, after an eviction and a
\* clear, holds none of them
C27_Witness ==
    /\ held.taken
    /\ Len(held.data) = 2
    /\ last.op = "clear"
    /\ created > max

C29_SendOrderKept ==
    (impl = "js" /\ last.op = "list") =>
        \A i, j \in 1..Len(last.snap) :
            (last.snap[i].ack # 0 /\ last.snap[i].ack <= last.snap[j].seen)
                => i < j

\* C30: under fair scheduling every message of index.js with a non-empty
\* payload whose transaction was acknowledged as accepted is eventually in
\* the store.
C30_AcknowledgedIsStored ==
    \A s \in Sessions, n \in 1..MaxMsgs :
        (jsPc[s] = "parsing" /\ txn[s].ack = n)
            ~> (\E i \in 1..Len(mails) : mails[i].ack = n)

\* C31: every answer of GET /health of index.js reports emailCount equal to
\* the number of resident records and maxEmails equal to the configured max,
\* and so emailCount <= maxEmails, whatever ingestion and deletes went on
\* around the request.
C31_HealthCountsResident ==
    (impl = "js" /\ last.op = "health") =>
        /\ last.status = 200
        /\ last.http.emailCount = Len(mails)
        /\ last.http.maxEmails = max
        /\ last.http.emailCount <= last.http.maxEmails

\* a health answer at a full store from which a record has been evicted
C31_Witness ==
    /\ impl = "js"
    /\ last.op = "health"
    /\ last.http.emailCount = max
    /\ created > max

\* C32: in the TypeScript sink the success reply to DATA is given only after
\* the push: at the step in which a transaction is answered with success the
\* record is in the store and in a snapshot taken then, and a record leaves
\* the store only through an eviction by a push, a remove or a clear.
C32_ReplyAfterPush ==
    [][impl = "ts" =>
          /\ (acks' = acks + 1) =>
                 /\ last'.op = "push"
                 /\ last'.status = 250
                 /\ last'.rec.ord = created'
                 /\ \E i \in 1..Len(ToArray(arr')) : ToArray(arr')[i] = last'.rec
          /\ (OrdsOf(arr) \ OrdsOf(arr') # {}) =>
                 last'.op \in {"push", "remove", "clear"}]_vars

\* a success reply for a message whose push evicted the oldest record
C32_Witness ==
    /\ impl = "ts"
    /\ last.op = "push"
    /\ last.status = 250
    /\ last.count > 0
    /\ \E i \in 1..Len(arr) : arr[i] = last.rec

\* C33: in the TypeScript sink, when onData reports an error to the client
\* (callback(err)) the store holds no record for that message: the handler
\* that ends with the error reply leaves the store as it was, also when the
\* failure arises while the subscribers are notified.
C33_FailedIngestionLeavesStore ==
    [][(impl = "ts" /\ tsPc' # tsPc /\ last'.status = 451) => arr' = arr]_vars

\* the handlers of the TypeScript sink that end an invocation of onMailFrom
\* or of onData
TsSmtpEnds ==
    {"mailfrom", "push", "parse_error", "build_error", "notify_error"}

StrictlyIncreasingIds(a) ==
    \A i, j \in 1..Len(a) : i < j => a[i].id < a[j].id

\* C35: in index.js the ids of the resident records increase strictly from
\* the oldest to the newest in every reachable state, whatever the sessions,
\* evictions, deletes and clears did, and the id counter never goes down.
C35_IdsIncreaseAlongStore ==
    /\ [](impl = "js" => StrictlyIncreasingIds(mails))
    /\ [][impl = "js" => emailIdCounter' >= emailIdCounter]_vars

\* two resident records with a gap between their ids: the record between
\* them was deleted before the newest one arrived
C35_Witness ==
    /\ impl = "js"
    /\ last.op = "push"
    /\ Len(mails) = 2
    /\ mails[2].id > mails[1].id + 1

\* the last n of the messages 1..c, by arrival
MostRecent(c, n) == {o \in 1..c : o > c - n}

\* C36: in the original sink the trim loop evicts oldest-first: after any
\* sequence of accepted messages the list holds at most max mails, they are
\* the most recently received ones, and they stand in arrival order, in the
\* list and in every answer of GET /emails.
C36_OrigKeepsMostRecent ==
    impl = "cjs" =>
        /\ Len(mails) <= max
        /\ OrdsOf(mails) = MostRecent(created, max)
        /\ InPushOrder(mails)
        /\ last.op = "list" => last.snap = mails
====
